---- MODULE Spec2Model ----
(***************************************************************************)
(* hive-auth-wrapper (src/has-wrapper.js): the pending message store       *)
(* (requests, getRequest), the inbound classifier (wsHAS.onmessage), the   *)
(* transport (startWebsocket, isConnected, send) and the three request     *)
(* flows (authenticate, broadcast, challenge) with their poll timers.      *)
(*                                                                         *)
(* Time is counted in units of 60 000 ms, the default request timeout.     *)
(* JavaScript runs every handler (a socket event, a timer callback, the    *)
(* code between two awaits) to completion, so each is one action.          *)
(***************************************************************************)
EXTENDS Integers, Sequences, FiniteSets, TLC

\* ------------------------------------------------------------------ bounds
MaxTime == 2        \* Date.now() ranges over 1..MaxTime
MaxUuid == 2        \* correlation ids 1..MaxUuid
MaxKey == 2         \* symmetric keys 1..MaxKey
MaxStore == 2       \* messages held by the store in the flow specification
MaxStoreQ == 2      \* messages held by the store in the store specification
MaxFlows == 1       \* calls of authenticate / broadcast / challenge
MaxPair == 2        \* calls running side by side in the concurrent specification

\* --------------------------------------------------------------- constants
CMD == [ CONNECTED |-> "connected",
         AUTH_REQ |-> "auth_req", AUTH_WAIT |-> "auth_wait", AUTH_ACK |-> "auth_ack",
         AUTH_NACK |-> "auth_nack", AUTH_ERR |-> "auth_err",
         SIGN_REQ |-> "sign_req", SIGN_WAIT |-> "sign_wait", SIGN_ACK |-> "sign_ack",
         SIGN_NACK |-> "sign_nack", SIGN_ERR |-> "sign_err",
         CHALLENGE_REQ |-> "challenge_req", CHALLENGE_WAIT |-> "challenge_wait",
         CHALLENGE_ACK |-> "challenge_ack", CHALLENGE_NACK |-> "challenge_nack",
         CHALLENGE_ERR |-> "challenge_err",
         ERROR |-> "error" ]

\* let HAS_timeout = 60*1000, in time units
DefaultTimeout == 1

\* a missing (undefined, falsy) uuid, expire or timeout field
NoUuid == 0
NoExpire == 0

Uuids == 1..MaxUuid
Keys == 1..MaxKey
Times == 1..MaxTime
FlowIds == 1..MaxFlows

\* ------------------------------------------------------------ envelope codec
\* A ciphertext string is the pair of the key it was made under and its
\* plaintext; NoField is a field the message does not carry (undefined).
\* Plaintext 0 is a well-formed payload text (a JSON document, an error
\* text); plaintext u > 0 is the uuid u written out.
PayloadText == 0
Plains == {PayloadText} \cup Uuids
NoField == [k |-> 0, p |-> 0]
Enc(k, p) == [k |-> k, p |-> p]
Ciphers == {NoField} \cup {Enc(k, p) : k \in Keys, p \in Plains}

\* CryptoJS.AES.decrypt(c, key).toString(CryptoJS.enc.Utf8): the plaintext
\* under the right key; under another key the bytes are garbage and the
\* result is either the empty string or the exception "Malformed UTF-8
\* data" (w says which); a missing field throws a TypeError.
EmptyText == -1
Throws == -2
WrongKeyResults == {EmptyText, Throws}

Decrypt(c, key, w) ==
  IF c = NoField THEN Throws
  ELSE IF c.k = key THEN c.p
  ELSE w

\* JSON.parse(text) returns: only a JSON document parses
ParseOk(text) == text = PayloadText

\* an inbound message; absent fields hold their No... value
Msg(cmd, uuid, expire, data, error, timeout) ==
  [cmd |-> cmd, uuid |-> uuid, expire |-> expire, data |-> data,
   error |-> error, timeout |-> timeout]

\* the value of `req` when find() returns undefined
NoReq == Msg("undefined", NoUuid, NoExpire, NoField, NoField, 0)

VARIABLES
  now,            \* Date.now()
  requests,       \* let requests = []
  HAS_connected,  \* let HAS_connected
  HAS_timeout,    \* let HAS_timeout
  wsHAS,          \* let wsHAS: 0 (undefined) or the id of a socket
  sockets,        \* readyState of every WebSocket created: socket id -> state
  flows,          \* per call: the closure's locals, its timer and its promise
  sent,           \* request messages handed to wsHAS.send()
  last,           \* the store query made, or the message received, by the latest step
  returned,       \* the (kind, uuid) pairs store queries have returned so far
  issued          \* the wait messages the service has confirmed requests with

vars == <<now, requests, HAS_connected, HAS_timeout, wsHAS, sockets, flows, sent,
          last, returned, issued>>

\* ------------------------------------------------------ pending message store
\* requests.filter(o => !o.expire || o.expire >= Date.now())
Live(o, t) == o.expire = NoExpire \/ o.expire >= t

\* mutant: the expired entries are not cleaned
EvictNothing(reqs, t) == reqs

Evict(reqs, t) ==
  LET Keep(o) == Live(o, t) IN SelectSeq(reqs, Keep)

\* o.cmd==type && (uuid ? o.uuid==uuid : true)
Matches(o, type, uuid) ==
  o.cmd = type /\ (IF uuid # NoUuid THEN o.uuid = uuid ELSE TRUE)

\* requests.find(...): the first match, or undefined
Find(reqs, type, uuid) ==
  LET hits == {i \in 1..Len(reqs) : Matches(reqs[i], type, uuid)}
  IN IF hits = {} THEN NoReq
     ELSE reqs[CHOOSE i \in hits : \A j \in hits : i <= j]

\* mutant: only the copies of the returned entry are removed
RemovedCopies(o, type, uuid, req) == o = req

\* o => !(o.cmd==type && (uuid ? o.uuid==req.uuid : true))
Removed(o, type, uuid, req) ==
  o.cmd = type /\ (IF uuid # NoUuid THEN o.uuid = req.uuid ELSE TRUE)

\* mutant: only the returned entry, the first match, is removed
RemoveFirst(reqs, type, uuid, req) ==
  LET i == CHOOSE j \in 1..Len(reqs) :
             reqs[j] = req /\ \A k \in 1..(j - 1) : reqs[k] # req
  IN SubSeq(reqs, 1, i - 1) \o SubSeq(reqs, i + 1, Len(reqs))

Remove(reqs, type, uuid, req) ==
  LET Keep(o) == ~Removed(o, type, uuid, req) IN SelectSeq(reqs, Keep)

\* getRequest(type, uuid): the value returned at time t
GetRequestReq(reqs, type, uuid, t) == Find(Evict(reqs, t), type, uuid)

\* getRequest(type, uuid): the store it leaves
GetRequestStore(reqs, type, uuid, t) ==
  LET live == Evict(reqs, t)
      req == Find(live, type, uuid)
  IN IF req # NoReq THEN Remove(live, type, uuid, req) ELSE live

\* --------------------------------------------------------- inbound classifier
\* mutant: the generic error falls through the switch
CorrelatableTwelve ==
  { CMD.AUTH_WAIT, CMD.AUTH_ACK, CMD.AUTH_NACK, CMD.AUTH_ERR,
    CMD.SIGN_WAIT, CMD.SIGN_ACK, CMD.SIGN_NACK, CMD.SIGN_ERR,
    CMD.CHALLENGE_WAIT, CMD.CHALLENGE_ACK, CMD.CHALLENGE_NACK, CMD.CHALLENGE_ERR }

Correlatable ==
  { CMD.AUTH_WAIT, CMD.AUTH_ACK, CMD.AUTH_NACK, CMD.AUTH_ERR,
    CMD.SIGN_WAIT, CMD.SIGN_ACK, CMD.SIGN_NACK, CMD.SIGN_ERR,
    CMD.CHALLENGE_WAIT, CMD.CHALLENGE_ACK, CMD.CHALLENGE_NACK, CMD.CHALLENGE_ERR,
    CMD.ERROR }

\* wsHAS.onmessage: the store and the timeout after `message`
OnMessageStore(reqs, message) ==
  IF message.cmd # "" /\ message.cmd \in Correlatable
  THEN Append(reqs, message) ELSE reqs

OnMessageTimeout(timeout, message) ==
  IF message.cmd = CMD.CONNECTED THEN message.timeout ELSE timeout

\* `last` after a step that made no store query; by is the flow whose timer
\* made the query (0: a direct call), hits counts the live entries that
\* matched the query before it removed any, msg is the message a step of
\* the classifier specification handed to wsHAS.onmessage
NoQuery ==
  [type |-> "", uuid |-> NoUuid, req |-> NoReq, hits |-> 0, by |-> 0, msg |-> NoReq]

Pair(o) == <<o.cmd, o.uuid>>

Hits(reqs, type, uuid, t) ==
  Cardinality({i \in 1..Len(reqs) : Live(reqs[i], t) /\ Matches(reqs[i], type, uuid)})

\* ---------------------------------------------------------------- the flows
Families == {"authenticate", "broadcast", "challenge"}

ReqKind(fam) ==
  CASE fam = "authenticate" -> CMD.AUTH_REQ
    [] fam = "broadcast" -> CMD.SIGN_REQ
    [] OTHER -> CMD.CHALLENGE_REQ

WaitKind(fam) ==
  CASE fam = "authenticate" -> CMD.AUTH_WAIT
    [] fam = "broadcast" -> CMD.SIGN_WAIT
    [] OTHER -> CMD.CHALLENGE_WAIT

AckKind(fam) ==
  CASE fam = "authenticate" -> CMD.AUTH_ACK
    [] fam = "broadcast" -> CMD.SIGN_ACK
    [] OTHER -> CMD.CHALLENGE_ACK

NackKind(fam) ==
  CASE fam = "authenticate" -> CMD.AUTH_NACK
    [] fam = "broadcast" -> CMD.SIGN_NACK
    [] OTHER -> CMD.CHALLENGE_NACK

ErrKind(fam) ==
  CASE fam = "authenticate" -> CMD.AUTH_ERR
    [] fam = "broadcast" -> CMD.SIGN_ERR
    [] OTHER -> CMD.CHALLENGE_ERR

\* what a promise was settled with: nothing yet, a message object (resolve(req_ack),
\* reject(req_nack), reject(req_err): tag is its cmd) or new Error(text)
ExpiredText == -3
NoResult == [tag |-> "none", text |-> 0]
MessageResult(req) == [tag |-> req.cmd, text |-> 0]
ErrorResult(text) == [tag |-> "Error", text |-> text]

\* One call: pc is where its code stands ("idle" not called, "connecting" in
\* isConnected's sleep loop, "polling" timer running, "stopped" timer cleared,
\* "threw" the async executor threw before the timer was set); key, uuid and
\* expire are the closure's auth_key / auth.key, uuid and expire; outcome and
\* result are the promise's state and value; late says that the promise was
\* settled by a timer callback that ran at or after the deadline; cb counts
\* the times the callback reached cbWait(req); updated says that the call
\* assigned auth.token, auth.expire and auth.key.
IdleFlow ==
  [fam |-> "", pc |-> "idle", key |-> 0, uuid |-> NoUuid, expire |-> NoExpire,
   outcome |-> "pending", result |-> NoResult, late |-> FALSE,
   cb |-> 0, updated |-> FALSE]

\* mutant: the deadline itself is not yet expired
ExpiredAfter(expire, t) == expire # NoExpire /\ expire < t

\* expire <= Date.now(), false for an undefined expire
Expired(expire, t) == expire # NoExpire /\ expire <= t

\* resolve() / reject(): only the first call settles the promise
Settle(fl, outcome, result, t) ==
  IF fl.outcome = "pending"
  THEN [fl EXCEPT !.outcome = outcome, !.result = result,
                  !.late = Expired(fl.expire, t)]
  ELSE fl

ClearInterval(fl) == [fl EXCEPT !.pc = "stopped"]

\* mutant: the expiration overrides an outcome already delivered
ExpiryOverrides(fl, t) ==
  IF Expired(fl.expire, t)
  THEN [fl EXCEPT !.pc = "stopped", !.outcome = "Expired",
                  !.result = ErrorResult(ExpiredText), !.late = TRUE]
  ELSE fl

\* if(expire <= Date.now()) { clearInterval(wait); reject(new Error("expired")) }
ExpiryCheck(fl, t) ==
  IF Expired(fl.expire, t)
  THEN Settle(ClearInterval(fl), "Expired", ErrorResult(ExpiredText), t)
  ELSE fl

\* Key 1 is the session key of a call, the caller's auth.key or the fresh
\* uuidv4(); the keys above it are keys the call does not hold.
CallerKeys == {1}

\* the arguments of a call, as far as the asserts look at them
Args ==
  [username : BOOLEAN, token : BOOLEAN, key : {0} \cup CallerKeys,
   app : BOOLEAN, challenge : BOOLEAN, nops : 0..1]

\* the asserts before `await isConnected()`
Valid(fam, a) ==
  CASE fam = "authenticate" -> a.username /\ a.app /\ a.challenge
    [] fam = "broadcast" -> a.username /\ a.token /\ a.key # 0 /\ a.nops > 0
    [] OTHER -> a.username /\ a.token /\ a.key # 0 /\ a.challenge

\* the timer callback while uuid is unset: the flow and the store it leaves
SentTick(fl, reqs, t) ==
  LET req == GetRequestReq(reqs, WaitKind(fl.fam), NoUuid, t)
      store == GetRequestStore(reqs, WaitKind(fl.fam), NoUuid, t)
      fl1 == IF req # NoReq
             THEN [fl EXCEPT !.uuid = req.uuid, !.expire = req.expire,
                             !.cb = fl.cb + 1]
             ELSE fl
  IN [fl |-> ExpiryCheck(fl1, t), reqs |-> store]

\* the three queries of the timer callback once uuid is set
AfterAck(fl, reqs, t) == GetRequestStore(reqs, AckKind(fl.fam), fl.uuid, t)
AfterNack(fl, reqs, t) == GetRequestStore(AfterAck(fl, reqs, t), NackKind(fl.fam), fl.uuid, t)
AfterErr(fl, reqs, t) == GetRequestStore(AfterNack(fl, reqs, t), ErrKind(fl.fam), fl.uuid, t)
ReqAck(fl, reqs, t) == GetRequestReq(reqs, AckKind(fl.fam), fl.uuid, t)
ReqNack(fl, reqs, t) == GetRequestReq(AfterAck(fl, reqs, t), NackKind(fl.fam), fl.uuid, t)
ReqErr(fl, reqs, t) == GetRequestReq(AfterNack(fl, reqs, t), ErrKind(fl.fam), fl.uuid, t)

\* auth.token = ...; auth.expire = ...; auth.key = auth_key
UpdateAuth(fl) == [fl EXCEPT !.updated = TRUE]

\* mutant: authenticate takes the nack unverified
AuthenticateTrusting(fl, req_ack, req_nack, req_err, t, w) ==
  IF req_ack # NoReq
  THEN LET d == Decrypt(req_ack.data, fl.key, w)
       IN IF d # Throws /\ ParseOk(d)
          THEN ExpiryCheck(Settle(UpdateAuth(ClearInterval(fl)), "Ack",
                                  MessageResult(req_ack), t), t)
          ELSE ExpiryCheck(fl, t)
  ELSE IF req_nack # NoReq
  THEN ExpiryCheck(Settle(fl, "Nack", MessageResult(req_nack), t), t)
  ELSE IF req_err # NoReq
  THEN ExpiryCheck(Settle(fl, "Err", MessageResult(req_err), t), t)
  ELSE ExpiryCheck(fl, t)

\* authenticate: what the callback does with what it found
AuthenticateFound(fl, req_ack, req_nack, req_err, t, w) ==
  IF req_ack # NoReq
  THEN LET d == Decrypt(req_ack.data, fl.key, w)
       IN IF d # Throws /\ ParseOk(d)
          THEN ExpiryCheck(Settle(UpdateAuth(ClearInterval(fl)), "Ack",
                                  MessageResult(req_ack), t), t)
          ELSE ExpiryCheck(fl, t)
  ELSE IF req_nack # NoReq
  THEN LET d == Decrypt(req_nack.data, fl.key, w)
       IN IF d = Throws THEN fl
          ELSE IF d = fl.uuid
          THEN ExpiryCheck(Settle(fl, "Nack", MessageResult(req_nack), t), t)
          ELSE ExpiryCheck(fl, t)
  ELSE IF req_err # NoReq
  THEN ExpiryCheck(Settle(fl, "Err", MessageResult(req_err), t), t)
  ELSE ExpiryCheck(fl, t)

\* broadcast and challenge: an err message
ErrFound(fl, req_err, t, w) ==
  LET d == Decrypt(req_err.error, fl.key, w)
  IN IF d = Throws THEN ClearInterval(fl)
     ELSE ExpiryCheck(Settle(ClearInterval(fl), "Err", ErrorResult(d), t), t)

BroadcastFound(fl, req_ack, req_nack, req_err, t, w) ==
  IF req_ack # NoReq
  THEN ExpiryCheck(Settle(ClearInterval(fl), "Ack", MessageResult(req_ack), t), t)
  ELSE IF req_nack # NoReq
  THEN ExpiryCheck(Settle(ClearInterval(fl), "Nack", MessageResult(req_nack), t), t)
  ELSE IF req_err # NoReq
  THEN ErrFound(fl, req_err, t, w)
  ELSE ExpiryCheck(fl, t)

ChallengeFound(fl, req_ack, req_nack, req_err, t, w) ==
  IF req_ack # NoReq
  THEN LET d == Decrypt(req_ack.data, fl.key, w)
       IN IF d # Throws /\ ParseOk(d)
          THEN ExpiryCheck(Settle(ClearInterval(fl), "Ack", MessageResult(req_ack), t), t)
          ELSE ExpiryCheck(fl, t)
  ELSE IF req_nack # NoReq
  THEN ExpiryCheck(Settle(ClearInterval(fl), "Nack", MessageResult(req_nack), t), t)
  ELSE IF req_err # NoReq
  THEN ErrFound(fl, req_err, t, w)
  ELSE ExpiryCheck(fl, t)

\* the timer callback once uuid is set
ConfirmedTick(fl, reqs, t, w) ==
  LET req_ack == ReqAck(fl, reqs, t)
      req_nack == ReqNack(fl, reqs, t)
      req_err == ReqErr(fl, reqs, t)
  IN [fl |-> CASE fl.fam = "authenticate" ->
                    AuthenticateFound(fl, req_ack, req_nack, req_err, t, w)
               [] fl.fam = "broadcast" ->
                    BroadcastFound(fl, req_ack, req_nack, req_err, t, w)
               [] OTHER ->
                    ChallengeFound(fl, req_ack, req_nack, req_err, t, w),
      reqs |-> AfterErr(fl, reqs, t)]

\* mutant: the callback does not look at the phase
TickAnyPhase(fl, reqs, t, w) == ConfirmedTick(fl, reqs, t, w)

\* mutant: the callback looks for a wait message in every phase
TickAlwaysSent(fl, reqs, t, w) == SentTick(fl, reqs, t)

\* setInterval's callback
Tick(fl, reqs, t, w) ==
  IF fl.uuid = NoUuid THEN SentTick(fl, reqs, t) ELSE ConfirmedTick(fl, reqs, t, w)

\* ---------------------------------------------------------------- the store
\* the messages the store specification delivers: two kinds, every uuid
\* (also none), every expire (also none)
StoreKinds == {CMD.SIGN_WAIT, CMD.SIGN_ACK}

StoreInbound ==
  { Msg(c, u, e, NoField, NoField, 0) :
      c \in StoreKinds, u \in {NoUuid} \cup Uuids, e \in {NoExpire} \cup Times }

Init ==
  /\ now = 1
  /\ requests = <<>>
  /\ HAS_connected = FALSE
  /\ HAS_timeout = DefaultTimeout
  /\ wsHAS = 0
  /\ sockets = [s \in FlowIds |-> "none"]
  /\ flows = [f \in FlowIds |-> IdleFlow]
  /\ sent = {}
  /\ last = NoQuery
  /\ returned = {}
  /\ issued = {}

\* the clock moves on
AdvanceTime ==
  /\ now < MaxTime
  /\ now' = now + 1
  /\ last' = NoQuery
  /\ UNCHANGED <<requests, HAS_connected, HAS_timeout, wsHAS, sockets, flows, sent,
                 returned, issued>>

\* wsHAS.onmessage(message) on a store of bounded size
StoreDeliver(message) ==
  /\ Len(requests) < MaxStoreQ
  /\ requests' = OnMessageStore(requests, message)
  /\ HAS_timeout' = OnMessageTimeout(HAS_timeout, message)
  /\ last' = NoQuery
  /\ UNCHANGED <<now, HAS_connected, wsHAS, sockets, flows, sent, returned, issued>>

\* one call getRequest(type, uuid)
StoreQuery(type, uuid) ==
  /\ requests' = GetRequestStore(requests, type, uuid, now)
  /\ last' = [type |-> type, uuid |-> uuid,
              req |-> GetRequestReq(requests, type, uuid, now),
              hits |-> Hits(requests, type, uuid, now), by |-> 0, msg |-> NoReq]
  /\ UNCHANGED <<now, HAS_connected, HAS_timeout, wsHAS, sockets, flows, sent, returned, issued>>

\* the same call, with what it returned written to the log of returned pairs
LoggedQuery(type, uuid) ==
  /\ requests' = GetRequestStore(requests, type, uuid, now)
  /\ last' = [type |-> type, uuid |-> uuid,
              req |-> GetRequestReq(requests, type, uuid, now),
              hits |-> Hits(requests, type, uuid, now), by |-> 0, msg |-> NoReq]
  /\ returned' = IF GetRequestReq(requests, type, uuid, now) # NoReq
                 THEN returned \cup {Pair(GetRequestReq(requests, type, uuid, now))}
                 ELSE returned
  /\ UNCHANGED <<now, HAS_connected, HAS_timeout, wsHAS, sockets, flows, sent,
                 issued>>

QueryArgs == StoreKinds \X ({NoUuid} \cup Uuids)

\* ------------------------------------------------------------- the transport
\* send(message) and the start of the timer: wsHAS.send throws when wsHAS is
\* undefined or still connecting, and the executor ends there
Started(fl, t) ==
  IF wsHAS = 0 \/ sockets[wsHAS] = "connecting"
  THEN [fl EXCEPT !.pc = "threw"]
  ELSE [fl EXCEPT !.pc = "polling", !.expire = t + HAS_timeout, !.uuid = NoUuid]

SentBy(f, fl) ==
  IF wsHAS = 0 \/ sockets[wsHAS] = "connecting"
  THEN sent
  ELSE sent \cup {[cmd |-> ReqKind(fl.fam), flow |-> f, open |-> sockets[wsHAS] = "open"]}

\* auth.key || uuidv4() in authenticate, auth.key in broadcast and challenge
SessionKey(fam, a, fresh) ==
  IF fam = "authenticate" /\ a.key = 0 THEN fresh ELSE a.key

\* authenticate / broadcast / challenge up to the first suspension: the
\* asserts, then isConnected() up to its first sleep, or through to the timer
Call(f, fam, a, fresh) ==
  /\ flows[f].pc = "idle"
  /\ LET fl == [flows[f] EXCEPT !.fam = fam, !.key = SessionKey(fam, a, fresh)]
     IN IF ~Valid(fam, a)
        THEN /\ flows' = [flows EXCEPT ![f] = [fl EXCEPT !.pc = "threw"]]
             /\ UNCHANGED <<wsHAS, sockets, sent>>
        ELSE IF HAS_connected
        THEN /\ flows' = [flows EXCEPT ![f] = Started(fl, now)]
             /\ sent' = SentBy(f, fl)
             /\ UNCHANGED <<wsHAS, sockets>>
        ELSE /\ flows' = [flows EXCEPT ![f] = [fl EXCEPT !.pc = "connecting"]]
             /\ sockets' = [sockets EXCEPT ![f] = "connecting"]
             /\ wsHAS' = f
             /\ UNCHANGED sent
  /\ last' = NoQuery
  /\ UNCHANGED <<now, requests, HAS_connected, HAS_timeout, returned, issued>>

\* isConnected() when its sleep loop ends, and the rest of the executor
ConnectWake(f) ==
  /\ flows[f].pc = "connecting"
  /\ ~(wsHAS # 0 /\ sockets[wsHAS] = "connecting")
  /\ IF HAS_connected
     THEN /\ flows' = [flows EXCEPT ![f] = Started(flows[f], now)]
          /\ sent' = SentBy(f, flows[f])
     ELSE /\ flows' = [flows EXCEPT ![f] = [flows[f] EXCEPT !.pc = "threw"]]
          /\ UNCHANGED sent
  /\ last' = NoQuery
  /\ UNCHANGED <<now, requests, HAS_connected, HAS_timeout, wsHAS, sockets, returned, issued>>

\* wsHAS.onopen of socket s
SocketOpen(s) ==
  /\ sockets[s] = "connecting"
  /\ sockets' = [sockets EXCEPT ![s] = "open"]
  /\ HAS_connected' = TRUE
  /\ last' = NoQuery
  /\ UNCHANGED <<now, requests, HAS_timeout, wsHAS, flows, sent, returned, issued>>

\* wsHAS.onclose of socket s
SocketClose(s) ==
  /\ sockets[s] \in {"connecting", "open"}
  /\ sockets' = [sockets EXCEPT ![s] = "closed"]
  /\ wsHAS' = 0
  /\ HAS_connected' = FALSE
  /\ last' = NoQuery
  /\ UNCHANGED <<now, requests, HAS_timeout, flows, sent, returned, issued>>

\* What the service pushes for a request of family fam: wait messages carry
\* uuid and expire, the others carry uuid and an encrypted data or error
\* field and no expire.  An ack's data is a JSON document, a nack's data is
\* a uuid, an err's error is a text, each under any key.
ServiceMessages(fam) ==
  { Msg(WaitKind(fam), u, e, NoField, NoField, 0) :
      u \in Uuids, e \in {NoExpire} \cup Times }
  \cup { Msg(AckKind(fam), u, NoExpire, Enc(k, PayloadText), NoField, 0) :
      u \in Uuids, k \in Keys }
  \cup { Msg(NackKind(fam), u, NoExpire, Enc(k, p), NoField, 0) :
      u \in Uuids, k \in Keys, p \in Uuids }
  \cup { Msg(ErrKind(fam), u, NoExpire, NoField, Enc(k, PayloadText), 0) :
      u \in Uuids, k \in Keys }

\* the handshake, which announces the request timeout
Handshakes ==
  { Msg(CMD.CONNECTED, NoUuid, NoExpire, NoField, NoField, tmo) : tmo \in 1..2 }

\* the generic error, a message without cmd, a kind the switch does not route
OtherMessages ==
  { Msg(c, NoUuid, NoExpire, NoField, NoField, 0) : c \in {CMD.ERROR, "", CMD.AUTH_REQ} }

\* a request of family fam was sent and its timer still runs
RequestPending(fam) ==
  \E f \in DOMAIN flows : flows[f].fam = fam /\ flows[f].pc = "polling"

\* wsHAS.onmessage(message).  The service answers the requests it was sent,
\* as long as they are outstanding.
Deliver(message) ==
  /\ \E s \in DOMAIN sockets : sockets[s] = "open"
  /\ Len(requests) < MaxStore
  /\ requests' = OnMessageStore(requests, message)
  /\ HAS_timeout' = OnMessageTimeout(HAS_timeout, message)
  /\ last' = NoQuery
  /\ UNCHANGED <<now, HAS_connected, wsHAS, sockets, flows, sent, returned, issued>>

\* the first store query of a timer callback: for the wait kind while uuid
\* is unset, for the ack kind afterwards
FirstQuery(f, fl, reqs, t) ==
  LET type == IF fl.uuid = NoUuid THEN WaitKind(fl.fam) ELSE AckKind(fl.fam)
  IN [type |-> type, uuid |-> fl.uuid,
      req |-> GetRequestReq(reqs, type, fl.uuid, t),
      hits |-> Hits(reqs, type, fl.uuid, t), by |-> f, msg |-> NoReq]

\* the timer of flow f fires
PollTick(f, w) ==
  /\ flows[f].pc = "polling"
  /\ flows' = [flows EXCEPT ![f] = Tick(flows[f], requests, now, w).fl]
  /\ requests' = Tick(flows[f], requests, now, w).reqs
  /\ last' = FirstQuery(f, flows[f], requests, now)
  /\ UNCHANGED <<now, HAS_connected, HAS_timeout, wsHAS, sockets, sent, returned, issued>>

Next ==
  \/ AdvanceTime
  \/ \E f \in DOMAIN flows, fam \in Families, a \in Args, fresh \in CallerKeys : Call(f, fam, a, fresh)
  \/ \E f \in DOMAIN flows : ConnectWake(f)
  \/ \E s \in DOMAIN sockets : SocketOpen(s)
  \/ \E s \in DOMAIN sockets : SocketClose(s)
  \/ \E fam \in Families : \E message \in ServiceMessages(fam) :
        RequestPending(fam) /\ Deliver(message)
  \/ \E message \in Handshakes : Deliver(message)
  \/ \E message \in OtherMessages : Deliver(message)
  \/ \E f \in DOMAIN flows, w \in WrongKeyResults : PollTick(f, w)

\* the whole program
Spec == Init /\ [][Next]_vars

StoreNext ==
  \/ AdvanceTime
  \/ \E message \in StoreInbound : StoreDeliver(message)
  \/ \E q \in QueryArgs : StoreQuery(q[1], q[2])

\* deliveries, queries and the clock in any order
StoreSpec == Init /\ [][StoreNext]_vars

ReturnNext ==
  \/ AdvanceTime
  \/ \E message \in StoreInbound : StoreDeliver(message)
  \/ \E q \in QueryArgs : LoggedQuery(q[1], q[2])

\* the same, keeping the log of what the queries returned
ReturnSpec == Init /\ [][ReturnNext]_vars

\* ------------------------------------------------------ classifier alone
\* every kind of the protocol, a message without cmd and a kind of a later
\* protocol version
InboundKinds ==
  {CMD.CONNECTED, CMD.AUTH_REQ, CMD.AUTH_WAIT, CMD.AUTH_ACK, CMD.AUTH_NACK,
   CMD.AUTH_ERR, CMD.SIGN_REQ, CMD.SIGN_WAIT, CMD.SIGN_ACK, CMD.SIGN_NACK,
   CMD.SIGN_ERR, CMD.CHALLENGE_REQ, CMD.CHALLENGE_WAIT, CMD.CHALLENGE_ACK,
   CMD.CHALLENGE_NACK, CMD.CHALLENGE_ERR, CMD.ERROR, "", "attach_req"}

\* event.data of any kind; the handshake carries a timeout
Inbound ==
  { Msg(c, 1, NoExpire, NoField, NoField, 0) : c \in InboundKinds \ {CMD.CONNECTED} }
  \cup { Msg(CMD.CONNECTED, NoUuid, NoExpire, NoField, NoField, tmo) : tmo \in 1..2 }

\* wsHAS.onmessage(message), whatever the message
Receive(message) ==
  /\ \E s \in DOMAIN sockets : sockets[s] = "open"
  /\ Len(requests) < MaxStoreQ
  /\ requests' = OnMessageStore(requests, message)
  /\ HAS_timeout' = OnMessageTimeout(HAS_timeout, message)
  /\ last' = [NoQuery EXCEPT !.msg = message]
  /\ UNCHANGED <<now, HAS_connected, wsHAS, sockets, flows, sent, returned, issued>>

ClassifierNext ==
  \/ \E f \in DOMAIN flows, fam \in Families, a \in Args, fresh \in CallerKeys : Call(f, fam, a, fresh)
  \/ \E f \in DOMAIN flows : ConnectWake(f)
  \/ \E s \in DOMAIN sockets : SocketOpen(s)
  \/ \E s \in DOMAIN sockets : SocketClose(s)
  \/ \E message \in Inbound : Receive(message)

\* the transport and the classifier, no timer running
ClassifierSpec == Init /\ [][ClassifierNext]_vars

\* ------------------------------------------------------- concurrent calls
PairIds == 1..MaxPair

\* the state after the module is loaded, with room for MaxPair calls
PairInit ==
  /\ now = 1
  /\ requests = <<>>
  /\ HAS_connected = FALSE
  /\ HAS_timeout = DefaultTimeout
  /\ wsHAS = 0
  /\ sockets = [s \in PairIds |-> "none"]
  /\ flows = [f \in PairIds |-> IdleFlow]
  /\ sent = {}
  /\ last = NoQuery
  /\ returned = {}
  /\ issued = {}

\* The service confirms the request of flow f: wsHAS.onmessage with a wait
\* message of the request's family that carries a uuid it has not issued
\* before.  Each request is confirmed once.
Issue(f, u, e) ==
  /\ \E m \in sent : m.flow = f
  /\ \A i \in issued : i.flow # f /\ i.uuid # u
  /\ \E s \in DOMAIN sockets : sockets[s] = "open"
  /\ Len(requests) < MaxStore
  /\ LET message == Msg(WaitKind(flows[f].fam), u, e, NoField, NoField, 0)
     IN /\ requests' = OnMessageStore(requests, message)
        /\ HAS_timeout' = OnMessageTimeout(HAS_timeout, message)
  /\ issued' = issued \cup {[flow |-> f, uuid |-> u, expire |-> e]}
  /\ last' = NoQuery
  /\ UNCHANGED <<now, HAS_connected, wsHAS, sockets, flows, sent, returned>>

PairNext ==
  \/ AdvanceTime
  \/ \E f \in DOMAIN flows, fam \in Families, a \in Args, fresh \in CallerKeys : Call(f, fam, a, fresh)
  \/ \E f \in DOMAIN flows : ConnectWake(f)
  \/ \E s \in DOMAIN sockets : SocketOpen(s)
  \/ \E s \in DOMAIN sockets : SocketClose(s)
  \/ \E f \in DOMAIN flows, u \in Uuids, e \in Times : Issue(f, u, e)
  \/ \E f \in DOMAIN flows, w \in WrongKeyResults : PollTick(f, w)

\* several calls over the one store and the one transport
PairSpec == PairInit /\ [][PairNext]_vars

\* ------------------------------------------------------------------ claims
\* the entries of reqs other than those of o's (kind, uuid) pair
WithoutPair(reqs, o) ==
  LET Keep(x) == Pair(x) # Pair(o) IN SelectSeq(reqs, Keep)

HasPair(reqs, pr) == \E i \in 1..Len(reqs) : Pair(reqs[i]) = pr

\* C1: a successful getRequest(kind, id?) removes the returned entry and
\* exactly the live entries of the returned entry's (kind, uuid) pair, so the
\* entries of the same kind with another uuid stay, also when id is omitted.
C1_RemovesOnlyReturnedPair ==
  [][(last'.type # "" /\ last'.req # NoReq)
       => requests' = WithoutPair(Evict(requests, now), last'.req)]_vars

\* C2 as claimed: no (kind, uuid) pair is returned by two queries, whatever
\* is delivered in between.
C2_PairReturnedOnce ==
  [][(last'.req # NoReq) => Pair(last'.req) \notin returned]_vars

\* C2 as amended: a query that returns a message leaves no entry of that
\* message's (kind, uuid) pair in the store, so of the entries stored at the
\* time of a query at most one per pair is ever returned.
C2_PairLeavesStore ==
  last.req # NoReq => ~HasPair(requests, Pair(last.req))

\* C2 witness: a query returned one of two stored entries of one pair.
C2_Witness ==
  /\ last.req # NoReq /\ last.uuid # NoUuid /\ last.hits >= 2
  /\ Pair(last.req) \in returned

\* C3: getRequest never returns a message whose expire instant is earlier
\* than the time of the query.
C3_NeverReturnsExpired ==
  last.req # NoReq => (last.req.expire = NoExpire \/ last.req.expire >= now)

\* C3 witness: a query made after the clock moved returned a message whose
\* expire instant is the instant of the query.
C3_Witness ==
  last.req # NoReq /\ last.req.expire # NoExpire /\ last.req.expire = now /\ now > 1

\* C4: after two messages of one (kind, uuid) pair were delivered, one query
\* for the pair returns one of them and removes both: the same query made
\* again at once returns none.
C4_Coalescing ==
  (last.type # "" /\ last.hits >= 2)
    => /\ last.req # NoReq
       /\ Matches(last.req, last.type, last.uuid)
       /\ Hits(requests, last.type, last.uuid, now) = 0
       /\ GetRequestReq(requests, last.type, last.uuid, now) = NoReq

\* C4 witness: a query with a uuid met two live entries of its pair.
C4_Witness ==
  last.type # "" /\ last.uuid # NoUuid /\ last.hits = 2 /\ last.req.uuid = last.uuid

\* the ack, nack and err kinds of the three families
TerminalKinds ==
  {"auth_ack", "auth_nack", "auth_err", "sign_ack", "sign_nack", "sign_err",
   "challenge_ack", "challenge_nack", "challenge_err"}

FamilyPrefix(fam) ==
  CASE fam = "authenticate" -> "auth"
    [] fam = "broadcast" -> "sign"
    [] OTHER -> "challenge"

FamilyTerminal(fam) ==
  CASE fam = "authenticate" -> {"auth_ack", "auth_nack", "auth_err"}
    [] fam = "broadcast" -> {"sign_ack", "sign_nack", "sign_err"}
    [] OTHER -> {"challenge_ack", "challenge_nack", "challenge_err"}

KeepTerminal(reqs) ==
  LET Keep(o) == o.cmd \in TerminalKinds IN SelectSeq(reqs, Keep)

\* the first live entry of kind and uuid in the store now
FirstLive(kind, uuid) == GetRequestReq(requests, kind, uuid, now)

\* C5: a call whose inputs fail validation, or whose transport cannot become
\* connected, has its promise rejected and sends no request.
C5_FailedCallRejects ==
  \A f \in DOMAIN flows :
    flows[f].pc = "threw"
      => /\ flows[f].outcome # "pending"
         /\ \A m \in sent : m.flow # f

\* C6: in each flow, a timer callback of a confirmed flow that finds an err
\* message for its uuid (and no ack or nack), its error encrypted under the
\* session key, rejects the promise with an Error carrying the plaintext.
C6_ErrRejectsWithPlaintext ==
  [][\A f \in DOMAIN flows :
       LET fl == flows[f]
           err == FirstLive(FamilyPrefix(fl.fam) \o "_err", fl.uuid)
       IN (/\ last'.by = f /\ fl.uuid # NoUuid /\ fl.outcome = "pending"
           /\ FirstLive(FamilyPrefix(fl.fam) \o "_ack", fl.uuid) = NoReq
           /\ FirstLive(FamilyPrefix(fl.fam) \o "_nack", fl.uuid) = NoReq
           /\ err # NoReq /\ err.error # NoField /\ err.error.k = fl.key)
          => /\ flows'[f].outcome = "Err"
             /\ flows'[f].result = [tag |-> "Error", text |-> err.error.p]]_vars

\* C7 as claimed: a timer callback of a confirmed flow that runs at or after
\* the deadline delivers Expired, whatever it finds in the store.
C7_ExpirationWins ==
  [][\A f \in DOMAIN flows :
       LET fl == flows[f]
       IN (/\ last'.by = f /\ fl.uuid # NoUuid /\ fl.outcome = "pending"
           /\ fl.expire # NoExpire /\ fl.expire <= now)
          => flows'[f].outcome = "Expired"]_vars

\* C7 as amended: such a callback delivers Expired when it finds no ack, nack
\* or err for the uuid or discards the ack it found; a message it accepts
\* settles the promise first, as Ack, Nack or Err.
C7_MatchWinsAtDeadline ==
  [][\A f \in DOMAIN flows :
       LET fl == flows[f]
           ack == FirstLive(FamilyPrefix(fl.fam) \o "_ack", fl.uuid)
           nack == FirstLive(FamilyPrefix(fl.fam) \o "_nack", fl.uuid)
           err == FirstLive(FamilyPrefix(fl.fam) \o "_err", fl.uuid)
       IN (/\ last'.by = f /\ fl.uuid # NoUuid /\ fl.outcome = "pending"
           /\ fl.expire # NoExpire /\ fl.expire <= now)
          => /\ (ack = NoReq /\ nack = NoReq /\ err = NoReq)
                  => (flows'[f].outcome = "Expired" /\ flows'[f].pc = "stopped")
             /\ (ack # NoReq /\ fl.fam # "broadcast" /\ ack.data.k # fl.key)
                  => flows'[f].outcome = "Expired"
             /\ (ack # NoReq /\ (fl.fam = "broadcast" \/ ack.data = [k |-> fl.key, p |-> 0]))
                  => flows'[f].outcome = "Ack"
             /\ (/\ ack = NoReq /\ nack # NoReq
                 /\ (fl.fam # "authenticate" \/ nack.data = [k |-> fl.key, p |-> fl.uuid]))
                  => flows'[f].outcome = "Nack"
             /\ (/\ ack = NoReq /\ nack = NoReq /\ err # NoReq
                 /\ (fl.fam = "authenticate" \/ err.error.k = fl.key))
                  => flows'[f].outcome = "Err"]_vars

\* C7 witness: a promise resolved with an ack by a callback that ran at or
\* after the deadline.
C7_Witness ==
  \E f \in DOMAIN flows :
    /\ last.by = f /\ last.req # NoReq
    /\ flows[f].outcome = "Ack" /\ flows[f].late
    /\ flows[f].expire # NoExpire /\ flows[f].expire <= now

\* C8: a timer callback of a flow still in Sent that runs at or after the
\* deadline and matches no wait message stops the timer and rejects the
\* promise with the expiration error.
C8_SentDeadlineExpires ==
  [][\A f \in DOMAIN flows :
       LET fl == flows[f]
       IN (/\ last'.by = f /\ fl.uuid = NoUuid /\ last'.req = NoReq
           /\ fl.expire # NoExpire /\ fl.expire <= now)
          => /\ flows'[f].pc = "stopped"
             /\ flows'[f].outcome = "Expired"
             /\ flows'[f].result = [tag |-> "Error", text |-> ExpiredText]
             /\ flows'[f].uuid = NoUuid]_vars

\* C8 witness: a flow expired by a callback that looked for a wait message
\* and found none.
C8_Witness ==
  \E f \in DOMAIN flows :
    /\ last.by = f /\ last.type = FamilyPrefix(flows[f].fam) \o "_wait" /\ last.req = NoReq
    /\ flows[f].uuid = NoUuid /\ flows[f].pc = "stopped" /\ flows[f].outcome = "Expired"

\* C9: a timer callback of a flow in Sent removes no live ack, nack or err
\* message from the store, and a callback of a confirmed flow leaves none of
\* its uuid behind: its queries find those that arrived before the wait
\* message.
C9_SentKeepsTerminal ==
  [][\A f \in DOMAIN flows :
       LET fl == flows[f]
       IN last'.by = f
          => IF fl.uuid = NoUuid
             THEN KeepTerminal(requests') = KeepTerminal(Evict(requests, now))
             ELSE \A i \in 1..Len(requests') :
                    ~(/\ requests'[i].cmd \in FamilyTerminal(fl.fam)
                      /\ requests'[i].uuid = fl.uuid)]_vars

\* C9 witness: the callback that matched the wait message left in the store
\* an ack, nack or err message of the uuid it adopted, delivered before.
C9_Witness ==
  \E f \in DOMAIN flows :
    /\ last.by = f /\ last.type = FamilyPrefix(flows[f].fam) \o "_wait" /\ last.req # NoReq
    /\ flows[f].uuid = last.req.uuid /\ flows[f].outcome = "pending"
    /\ \E i \in 1..Len(requests) :
         requests[i].cmd \in FamilyTerminal(flows[f].fam) /\ requests[i].uuid = flows[f].uuid

\* C10: the ack, nack and err messages stored for a flow that expired without
\* its wait message do not stay for ever: the eviction of a later query,
\* made late enough, removes each of them.
C10_OrphansEvicted ==
  \A f \in DOMAIN flows :
    (flows[f].outcome = "Expired" /\ flows[f].uuid = NoUuid)
      => \A i \in 1..Len(requests) :
           requests[i].cmd \in FamilyTerminal(flows[f].fam)
             => \E t \in 1..(MaxTime + 1) : Len(Evict(<<requests[i]>>, t)) = 0

\* C11: with one wait message of a distinct uuid issued per outstanding
\* request, no wait message is lost to the flows: as long as it has not
\* expired it is in the store or its uuid was adopted by a flow, so that
\* every flow finds one and becomes Confirmed; and no two flows hold the
\* same uuid.
C11_EveryFlowConfirmed ==
  /\ \A i \in issued :
       \/ i.expire < now
       \/ HasPair(requests, <<WaitKind(flows[i.flow].fam), i.uuid>>)
       \/ \E g \in DOMAIN flows : flows[g].uuid = i.uuid
  /\ \A f \in DOMAIN flows, g \in DOMAIN flows :
       (f # g /\ flows[f].uuid # NoUuid) => flows[f].uuid # flows[g].uuid

\* C12: the credential is assigned only by a step in which an authenticate
\* flow's pending promise is resolved with the ack; a flow whose promise was
\* rejected (Nack, Err, Expired) never assigns it.
C12_CredentialFrame ==
  [][\A f \in DOMAIN flows :
       flows'[f].updated # flows[f].updated
         => /\ flows[f].fam = "authenticate"
            /\ flows[f].outcome = "pending"
            /\ flows'[f].outcome = "Ack"]_vars

\* C13: a flow whose promise is settled (Ack, Nack, Err or Expired) makes no
\* further query against the store.
C13_TerminalStopsPolling ==
  [][\A f \in DOMAIN flows :
       flows[f].outcome \in {"Ack", "Nack", "Err", "Expired"} => last'.by # f]_vars

\* C14: no flow stops polling while its promise is still pending.
C14_StoppedMeansSettled ==
  \A f \in DOMAIN flows : flows[f].pc = "stopped" => flows[f].outcome # "pending"

\* C15: in every flow, a timer callback before the deadline that finds an ack
\* for its uuid whose data is not encrypted under the session key leaves the
\* promise pending and the timer running.
C15_BadAckDiscarded ==
  [][\A f \in DOMAIN flows :
       LET fl == flows[f]
           ack == FirstLive(FamilyPrefix(fl.fam) \o "_ack", fl.uuid)
       IN (/\ last'.by = f /\ fl.uuid # NoUuid /\ fl.outcome = "pending"
           /\ (fl.expire = NoExpire \/ fl.expire > now)
           /\ ack # NoReq /\ ack.data.k # fl.key)
          => /\ flows'[f].outcome = "pending"
             /\ flows'[f].pc = "polling"
             /\ flows'[f].uuid = fl.uuid]_vars

\* the nack whose data is the flow's uuid encrypted under the session key
Verified(fl, nack) == nack.data = [k |-> fl.key, p |-> fl.uuid]

WaitEntries(reqs) ==
  LET Keep(o) == o.cmd \in {"auth_wait", "sign_wait", "challenge_wait"}
  IN SelectSeq(reqs, Keep)

\* C17: the callback that first matches a wait message records its uuid,
\* takes its expire as the deadline and reaches cbWait once; from then on the
\* uuid and the count of cbWait calls never change and the callback takes no
\* wait message from the store.
C17_ConfirmedOnce ==
  [][\A f \in DOMAIN flows :
       LET fl == flows[f]
       IN /\ (last'.by = f /\ fl.uuid = NoUuid /\ last'.req # NoReq)
               => /\ last'.type = FamilyPrefix(fl.fam) \o "_wait"
                  /\ flows'[f].uuid = last'.req.uuid /\ flows'[f].uuid # NoUuid
                  /\ flows'[f].expire = last'.req.expire
                  /\ fl.cb = 0 /\ flows'[f].cb = 1
          /\ (last'.by = f /\ fl.uuid = NoUuid /\ last'.req = NoReq)
               => (flows'[f].uuid = NoUuid /\ flows'[f].cb = 0)
          /\ fl.uuid # NoUuid
               => /\ flows'[f].uuid = fl.uuid
                  /\ flows'[f].cb = fl.cb
                  /\ last'.by = f
                       => WaitEntries(requests') = WaitEntries(Evict(requests, now))]_vars

\* C17 witness: a callback of a confirmed flow ran while a wait message of
\* its family was in the store, and left it there.
C17_Witness ==
  \E f \in DOMAIN flows :
    /\ last.by = f /\ last.type = FamilyPrefix(flows[f].fam) \o "_ack"
    /\ flows[f].uuid # NoUuid /\ flows[f].cb = 1
    /\ \E i \in 1..Len(requests) :
         requests[i].cmd = FamilyPrefix(flows[f].fam) \o "_wait"

\* C18: a timer callback of a confirmed flow that finds an err message for
\* its uuid next to an ack or a nack it does not accept does not lose the
\* err: it rejects with Err, or the err message is still in the store.
C18_ErrNotLost ==
  [][\A f \in DOMAIN flows :
       LET fl == flows[f]
           ack == FirstLive(FamilyPrefix(fl.fam) \o "_ack", fl.uuid)
           nack == FirstLive(FamilyPrefix(fl.fam) \o "_nack", fl.uuid)
           err == FirstLive(FamilyPrefix(fl.fam) \o "_err", fl.uuid)
       IN (/\ last'.by = f /\ fl.uuid # NoUuid /\ fl.outcome = "pending"
           /\ err # NoReq /\ (ack # NoReq \/ nack # NoReq)
           /\ flows'[f].outcome \notin {"Ack", "Nack"})
          => \/ flows'[f].outcome = "Err"
             \/ HasPair(requests', Pair(err))]_vars

\* the thirteen kinds the classifier stores
ThirteenKinds ==
  {"auth_wait", "auth_ack", "auth_nack", "auth_err",
   "sign_wait", "sign_ack", "sign_nack", "sign_err",
   "challenge_wait", "challenge_ack", "challenge_nack", "challenge_err", "error"}

\* C19: wsHAS.onmessage appends a message of one of the thirteen kinds to the
\* store as it is and changes nothing else; a handshake changes HAS_timeout
\* only; any other message changes neither the store, nor HAS_timeout, nor
\* HAS_connected.
C19_ClassifierFrame ==
  [][last'.msg # NoReq
       => LET message == last'.msg
          IN /\ HAS_connected' = HAS_connected
             /\ message.cmd \in ThirteenKinds
                  => (requests' = Append(requests, message) /\ HAS_timeout' = HAS_timeout)
             /\ message.cmd = "connected"
                  => (requests' = requests /\ HAS_timeout' = message.timeout)
             /\ message.cmd \notin ThirteenKinds \cup {"connected"}
                  => (requests' = requests /\ HAS_timeout' = HAS_timeout)]_vars

\* C19 witness: the generic error was stored behind another message, and
\* the handshake had changed the timeout before.
C19_Witness ==
  /\ last.msg # NoReq /\ last.msg.cmd = "error"
  /\ Len(requests) = 2 /\ requests[2] = last.msg
  /\ HAS_timeout # DefaultTimeout

\* C20: at most one socket is connecting at any time, HAS_connected is true
\* only while the socket wsHAS stands for is open, and every request was
\* sent on an open socket.
C20_SingleTransport ==
  /\ Cardinality({s \in DOMAIN sockets : sockets[s] = "connecting"}) <= 1
  /\ HAS_connected => (wsHAS # 0 /\ sockets[wsHAS] = "open")
  /\ \A m \in sent : m.open

====
